---- MODULE Spec2Model ----
(***************************************************************************)
(* klawhook / KeyHook: a webhook relay.  The model covers the SQLite store *)
(* (hooks and events tables and the prepared statements over them), the    *)
(* public ingestion route /webhook/:id, the authenticated /hooks routes    *)
(* (create, list, get, delete, poll events) and the hourly cleanup.        *)
(*                                                                         *)
(* Time is the wall clock in whole seconds: datetime('now') is `now`.      *)
(* A handler is one action between two awaits; the ingestion handler of a  *)
(* POST/PUT/PATCH request awaits the body between its hook lookup and its  *)
(* insert, so it is two actions with the request held in `inflight`.       *)
(* `resp` is what the last step answered (NoResp for a step that answers   *)
(* nothing); it is an observation only and no action reads it.             *)
(***************************************************************************)
EXTENDS Integers, Sequences, FiniteSets, TLC

VARIABLES
    hooks,      \* hooks table: hook id -> row
    events,     \* events table: event id -> row
    now,        \* wall clock, seconds
    inflight,   \* ingestion requests between getHook and the end of `await c.req.text()`
    nextHook,   \* the next hook id nanoid(12) has not produced yet
    nextEvent,  \* the next event id nanoid(16) has not produced yet
    ticks,      \* clock advances made so far
    polled,     \* history: ids of the events a poll returned with marking in effect
    tokenCache, \* auth.ts tokenCache: token -> [result, expires]
    verifying,  \* requests of /hooks* waiting in verifyToken for the authority's answer
    resp        \* answer of the last step

vars == <<hooks, events, now, inflight, nextHook, nextEvent, ticks, polled, tokenCache,
          verifying, resp>>

-----------------------------------------------------------------------------
(* Bounds of the model *)

MaxHooks == 2
MaxEvents == 3
MaxTicks == 2
MaxInflight == 1
MaxVerifying == 1

-----------------------------------------------------------------------------
(* Values *)

NULL == <<>>
Some(x) == <<x>>
IsNull(v) == v = NULL
Val(v) == v[1]

Min(a, b) == IF a <= b THEN a ELSE b

Tokens == {"t1", "t2"}
HookIds == {1, 2, 3}

(* A string is a sequence of runs: n UTF-16 code units, each a character  *)
(* whose UTF-8 encoding takes w bytes.                                     *)
RECURSIVE StrLength(_)
StrLength(s) == IF s = <<>> THEN 0 ELSE Head(s).n + StrLength(Tail(s))

RECURSIVE ByteLength(_)
ByteLength(s) == IF s = <<>> THEN 0 ELSE Head(s).w * Head(s).n + ByteLength(Tail(s))

(* String.prototype.substring(0, k) *)
RECURSIVE Substring(_, _)
Substring(s, k) ==
    IF k <= 0 \/ s = <<>> THEN <<>>
    ELSE IF Head(s).n <= k
         THEN <<Head(s)>> \o Substring(Tail(s), k - Head(s).n)
         ELSE <<[w |-> Head(s).w, n |-> k]>>

MAX_BODY_SIZE == 100 * 1024
PREVIEW_LENGTH == 1000
EXCLUDED_HEADERS == {"cookie", "authorization", "x-forwarded-for", "x-real-ip", "cf-connecting-ip"}
BODY_METHODS == {"POST", "PUT", "PATCH"}
RETENTION_SECONDS == 7 * 24 * 60 * 60
DEFAULT_LIMIT == <<"5", "0">>
LIMIT_CAP == 100

NoResp == [op |-> "none"]

-----------------------------------------------------------------------------
(* Request inputs *)

(* Query-string values are sequences of characters. *)
DigitValue(c) ==
    CASE c = "0" -> 0 [] c = "1" -> 1 [] c = "2" -> 2 [] c = "3" -> 3 [] c = "4" -> 4
      [] c = "5" -> 5 [] c = "6" -> 6 [] c = "7" -> 7 [] c = "8" -> 8 [] c = "9" -> 9
      [] OTHER -> -1

IsDigit(c) == DigitValue(c) >= 0

NaN == [nan |-> TRUE, val |-> 0]
Num(n) == [nan |-> FALSE, val |-> n]

(* The digits s starts with, folded into acc; n counts them. *)
RECURSIVE ParseDigits(_, _, _)
ParseDigits(s, acc, n) ==
    IF s # <<>> /\ IsDigit(Head(s))
    THEN ParseDigits(Tail(s), 10 * acc + DigitValue(Head(s)), n + 1)
    ELSE [val |-> acc, n |-> n]

(* parseInt(s): optional sign, then the longest run of digits; NaN without one. *)
ParseInt(s) ==
    LET neg == s # <<>> /\ Head(s) = "-"
        signed == s # <<>> /\ Head(s) \in {"-", "+"}
        d == ParseDigits(IF signed THEN Tail(s) ELSE s, 0, 0)
    IN  IF d.n = 0 THEN NaN ELSE Num(IF neg THEN -d.val ELSE d.val)

(* Math.min(a, b) *)
MathMin(a, b) == IF a.nan \/ b.nan THEN NaN ELSE Num(Min(a.val, b.val))

Query(limit, undelivered, mark_delivered) ==
    [limit |-> limit, undelivered |-> undelivered, mark_delivered |-> mark_delivered]

DefaultQuery == Query(NULL, NULL, NULL)

LimitParams ==
    {NULL, Some(<<>>), Some(<<"0">>), Some(<<"1">>), Some(<<"2">>), Some(<<"2", "x">>),
     Some(<<"1", "0", "1">>), Some(<<"-", "1">>), Some(<<"a", "b", "c">>)}

PollQueries ==
    [limit : LimitParams,
     undelivered : {NULL, Some("true"), Some("1")},
     mark_delivered : {NULL, Some("false")}]


(* Parsed JSON bodies of POST /hooks; a body that is not JSON parses to {}. *)
CreateBodies ==
    {[name |-> NULL, description |-> NULL, delivery_method |-> NULL, delivery_config |-> NULL],
     [name |-> Some("gh"), description |-> NULL, delivery_method |-> Some("nostr"),
      delivery_config |-> Some([nostr_pubkey |-> "npub"])],
     [name |-> NULL, description |-> Some("mail"), delivery_method |-> Some("email"),
      delivery_config |-> NULL]}

Ascii(n) == <<[w |-> 1, n |-> n]>>
Wide(n) == <<[w |-> 3, n |-> n]>>

(* Inbound webhook requests: method, headers (lower-case names, a value is a     *)
(* comma-separated list), query parameters and body text.                        *)
Requests ==
    {[method |-> "GET", headers |-> ("user-agent" :> <<"curl">>), query |-> <<>>,
      body |-> <<>>],
     [method |-> "POST",
      headers |-> ("content-type" :> <<"json">>) @@ ("authorization" :> <<"secret">>)
                  @@ ("x-forwarded-for" :> <<"10.0.0.1", "10.0.0.2">>),
      query |-> ("a" :> "1"), body |-> Ascii(20)],
     [method |-> "POST", headers |-> ("x-real-ip" :> <<"10.0.0.3">>), query |-> <<>>,
      body |-> Ascii(MAX_BODY_SIZE)],
     [method |-> "PUT", headers |-> ("cookie" :> <<"c">>), query |-> <<>>,
      body |-> Ascii(MAX_BODY_SIZE + 1)],
     [method |-> "PATCH", headers |-> ("x-forwarded-for" :> <<>>), query |-> <<>>,
      body |-> Ascii(500) \o Wide(MAX_BODY_SIZE)],
     [method |-> "POST", headers |-> <<>>, query |-> <<>>, body |-> Wide(40000)]}

TickDeltas == {1, RETENTION_SECONDS}

-----------------------------------------------------------------------------
(* The store: prepared statements (db.ts) *)

Restrict(f, S) == [x \in S |-> f[x]]

(* INSERT INTO hooks ...: created_at, last_triggered_at, event_count take the defaults *)
createHook(H, id, api_key, name, description, delivery_method, delivery_config, t) ==
    H @@ (id :> [id |-> id, api_key |-> api_key, name |-> name,
                 description |-> description, delivery_method |-> delivery_method,
                 delivery_config |-> delivery_config, created_at |-> t,
                 last_triggered_at |-> NULL, event_count |-> 0])

(* SELECT * FROM hooks WHERE id = ? *)
getHook(H, id) == IF id \in DOMAIN H THEN Some(H[id]) ELSE NULL

(* a DELETE that matches on the id alone *)
deleteHookMatchesAnyOwner(H, id, api_key) == {h \in DOMAIN H : h = id}

(* the rows DELETE FROM hooks WHERE id = ? AND api_key = ? removes *)
deleteHookMatches(H, id, api_key) == {h \in DOMAIN H : h = id /\ H[h].api_key = api_key}

deleteHook(H, id, api_key) == Restrict(H, DOMAIN H \ deleteHookMatches(H, id, api_key))

(* a hooks DELETE with no cascade to the events table *)
cascadeDeleteNone(E, H) == E

(* FOREIGN KEY (hook_id) REFERENCES hooks(id) ON DELETE CASCADE *)
cascadeDelete(E, H) == Restrict(E, {e \in DOMAIN E : E[e].hook_id \in DOMAIN H})

(* UPDATE hooks SET last_triggered_at = datetime('now'), event_count = event_count + 1 *)
updateHookTrigger(H, id, t) ==
    IF id \in DOMAIN H
    THEN [H EXCEPT ![id].last_triggered_at = Some(t), ![id].event_count = @ + 1]
    ELSE H

(* INSERT INTO events ...: received_at takes the default, delivered_at is NULL *)
createEvent(E, id, hook_id, method, headers, body, query_params, source_ip, t) ==
    E @@ (id :> [id |-> id, hook_id |-> hook_id, method |-> method, headers |-> headers,
                 body |-> body, query_params |-> query_params, source_ip |-> source_ip,
                 received_at |-> t, delivered_at |-> NULL])

(* PRIMARY KEY and FOREIGN KEY of the events table *)
(* the primary key alone, as with foreign keys not enforced *)
createEventPrimaryKeyFails(E, H, id, hook_id) == id \in DOMAIN E

createEventConstraintFails(E, H, id, hook_id) == id \in DOMAIN E \/ hook_id \notin DOMAIN H

(* The orders a SELECT ... ORDER BY received_at may return the rows S in: rows  *)
(* with equal received_at come in an order SQL leaves open.                      *)
OrderedBy(E, S, asc) ==
    {s \in [1..Cardinality(S) -> S] :
        /\ \A i, j \in 1..Cardinality(S) : i # j => s[i] # s[j]
        /\ \A i, j \in 1..Cardinality(S) : i < j =>
              IF asc THEN E[s[i]].received_at <= E[s[j]].received_at
                     ELSE E[s[i]].received_at >= E[s[j]].received_at}

(* LIMIT n: a negative n is no limit *)
SqlLimit(s, n) == IF n < 0 THEN s ELSE SubSeq(s, 1, Min(n, Len(s)))

Rows(E, s) == [i \in 1..Len(s) |-> E[s[i]]]

(* the same SELECT with ORDER BY received_at ASC *)
getEventsOldestFirst(E, hook_id, limit) ==
    {Rows(E, SqlLimit(s, limit)) :
        s \in OrderedBy(E, {e \in DOMAIN E : E[e].hook_id = hook_id}, TRUE)}

(* SELECT * FROM events WHERE hook_id = ? ORDER BY received_at DESC LIMIT ? *)
getEvents(E, hook_id, limit) ==
    {Rows(E, SqlLimit(s, limit)) :
        s \in OrderedBy(E, {e \in DOMAIN E : E[e].hook_id = hook_id}, FALSE)}

(* SELECT * FROM events WHERE hook_id = ? AND delivered_at IS NULL
   ORDER BY received_at ASC LIMIT ? *)
(* the undelivered events of a hook, newest first *)
getUndeliveredNewestFirst(E, hook_id, limit) ==
    {Rows(E, SqlLimit(s, limit)) :
        s \in OrderedBy(E, {e \in DOMAIN E : E[e].hook_id = hook_id
                                              /\ E[e].delivered_at = NULL}, FALSE)}

getUndeliveredEvents(E, hook_id, limit) ==
    {Rows(E, SqlLimit(s, limit)) :
        s \in OrderedBy(E, {e \in DOMAIN E : E[e].hook_id = hook_id
                                              /\ E[e].delivered_at = NULL}, TRUE)}

(* UPDATE events SET delivered_at = datetime('now') WHERE id = ? *)
(* a marking that writes a row for an id the table does not hold *)
markEventsDeliveredUpsert(E, id, t) ==
    IF id \in DOMAIN E THEN [E EXCEPT ![id].delivered_at = Some(t)]
    ELSE createEvent(E, id, 1, "GET", <<>>, NULL, NULL, NULL, t)

markEventsDelivered(E, id, t) ==
    IF id \in DOMAIN E THEN [E EXCEPT ![id].delivered_at = Some(t)] ELSE E

(* a DELETE that spares the events not delivered yet *)
deleteOldEventsDelivered(E, t) ==
    Restrict(E, {e \in DOMAIN E : ~(E[e].received_at < t - RETENTION_SECONDS
                                     /\ E[e].delivered_at # NULL)})

(* DELETE FROM events WHERE received_at < datetime('now', '-7 days') *)
deleteOldEvents(E, t) ==
    Restrict(E, {e \in DOMAIN E : ~(E[e].received_at < t - RETENTION_SECONDS)})

(* the same SELECT without WHERE api_key = ? *)
getHooksOfAnyone(H, api_key) ==
    LET S == DOMAIN H
        Columns(h) == [id |-> h.id, name |-> h.name, description |-> h.description,
                       delivery_method |-> h.delivery_method, created_at |-> h.created_at,
                       last_triggered_at |-> h.last_triggered_at,
                       event_count |-> h.event_count]
    IN  {[i \in 1..Cardinality(S) |-> Columns(H[s[i]])] :
            s \in {q \in [1..Cardinality(S) -> S] :
                     /\ \A i, j \in 1..Cardinality(S) : i # j => q[i] # q[j]
                     /\ \A i, j \in 1..Cardinality(S) : i < j =>
                           H[q[i]].created_at >= H[q[j]].created_at}}

(* SELECT ... FROM hooks WHERE api_key = ? ORDER BY created_at DESC *)
getHooksByApiKey(H, api_key) ==
    LET S == {h \in DOMAIN H : H[h].api_key = api_key}
        Columns(h) == [id |-> h.id, name |-> h.name, description |-> h.description,
                       delivery_method |-> h.delivery_method, created_at |-> h.created_at,
                       last_triggered_at |-> h.last_triggered_at,
                       event_count |-> h.event_count]
    IN  {[i \in 1..Cardinality(S) |-> Columns(H[s[i]])] :
            s \in {q \in [1..Cardinality(S) -> S] :
                     /\ \A i, j \in 1..Cardinality(S) : i # j => q[i] # q[j]
                     /\ \A i, j \in 1..Cardinality(S) : i < j =>
                           H[q[i]].created_at >= H[q[j]].created_at}}

-----------------------------------------------------------------------------
(* routes/hooks.ts: the authenticated routes.  t is the token authMiddleware  *)
(* put in the auth context; fault names the statement that throws, if any.    *)

PUBLIC_URL == "https://api.klawhook.xyz"

(* a URL that does not follow the id *)
WebhookUrlOfFirst(id) == <<PUBLIC_URL, "/webhook/", 1>>

(* `${process.env.PUBLIC_URL || 'https://api.klawhook.xyz'}/webhook/${hookId}` *)
WebhookUrl(id) == <<PUBLIC_URL, "/webhook/", id>>

(* nanoid(): an id never produced before (at most cap of them are made), or, by *)
(* collision, the id of a stored row                                            *)
NewHookIds(cap) == (IF nextHook <= cap THEN {nextHook} ELSE {}) \cup DOMAIN hooks
NewEventIds(cap) == (IF nextEvent <= cap THEN {nextEvent} ELSE {}) \cup DOMAIN events

HookFaults == {"none", "store"}

(* POST /hooks *)
CreateHook(t, body, hookId, fault) ==
    LET deliveryMethod == IF body.delivery_method = NULL THEN "poll"
                          ELSE Val(body.delivery_method)
        deliveryConfig == body.delivery_config
    IN  /\ IF fault = "store" \/ hookId \in DOMAIN hooks
           THEN /\ resp' = [op |-> "create", token |-> t, body |-> body, status |-> 500]
                /\ UNCHANGED <<hooks, nextHook>>
           ELSE /\ hooks' = createHook(hooks, hookId, t, body.name, body.description,
                                       deliveryMethod, deliveryConfig, now)
                /\ nextHook' = IF hookId = nextHook THEN nextHook + 1 ELSE nextHook
                /\ resp' = [op |-> "create", token |-> t, body |-> body, status |-> 201,
                            id |-> hookId,
                            webhook_url |-> WebhookUrl(hookId), name |-> body.name,
                            description |-> body.description,
                            delivery_method |-> deliveryMethod]
        /\ UNCHANGED <<events, now, inflight, nextEvent, ticks, polled, tokenCache, verifying>>

(* GET /hooks *)
ListHooks(t, fault) ==
    /\ IF fault = "store"
       THEN resp' = [op |-> "list", token |-> t, status |-> 500]
       ELSE \E hooksList \in getHooksByApiKey(hooks, t) :
               resp' = [op |-> "list", token |-> t, status |-> 200,
                        hooks |-> [i \in 1..Len(hooksList) |->
                                     [id |-> hooksList[i].id,
                                      webhook_url |-> WebhookUrl(hooksList[i].id),
                                      name |-> hooksList[i].name,
                                      description |-> hooksList[i].description,
                                      delivery_method |-> hooksList[i].delivery_method,
                                      created_at |-> hooksList[i].created_at,
                                      last_triggered_at |-> hooksList[i].last_triggered_at,
                                      event_count |-> hooksList[i].event_count]]]
    /\ UNCHANGED <<hooks, events, now, inflight, nextHook, nextEvent, ticks, polled, tokenCache, verifying>>

GetHookResponse(t, hookId, fault) ==
    LET hook == getHook(hooks, hookId)
    IN  IF fault = "store"
        THEN [op |-> "get", token |-> t, hookId |-> hookId, status |-> 500, hook |-> NULL]
        ELSE IF hook = NULL
        THEN [op |-> "get", token |-> t, hookId |-> hookId, status |-> 404, hook |-> NULL]
        ELSE IF Val(hook).api_key # t
        THEN [op |-> "get", token |-> t, hookId |-> hookId, status |-> 403, hook |-> NULL]
        ELSE [op |-> "get", token |-> t, hookId |-> hookId, status |-> 200,
              hook |-> Some([id |-> Val(hook).id, webhook_url |-> WebhookUrl(Val(hook).id),
                             name |-> Val(hook).name,
                             description |-> Val(hook).description,
                             delivery_method |-> Val(hook).delivery_method,
                             delivery_config |-> Val(hook).delivery_config,
                             created_at |-> Val(hook).created_at,
                             last_triggered_at |-> Val(hook).last_triggered_at,
                             event_count |-> Val(hook).event_count])]

(* GET /hooks/:id *)
GetHook(t, hookId, fault) ==
    /\ resp' = GetHookResponse(t, hookId, fault)
    /\ UNCHANGED <<hooks, events, now, inflight, nextHook, nextEvent, ticks, polled, tokenCache, verifying>>

(* DELETE /hooks/:id *)
DeleteHook(t, hookId, fault) ==
    /\ IF fault = "store"
       THEN /\ resp' = [op |-> "delete", token |-> t, hookId |-> hookId, status |-> 500]
            /\ UNCHANGED <<hooks, events>>
       ELSE LET changes == Cardinality(deleteHookMatches(hooks, hookId, t))
                H1 == deleteHook(hooks, hookId, t)
            IN  /\ hooks' = H1
                /\ events' = cascadeDelete(events, H1)
                /\ resp' = [op |-> "delete", token |-> t, hookId |-> hookId,
                            status |-> IF changes = 0 THEN 404 ELSE 200]
    /\ UNCHANGED <<now, inflight, nextHook, nextEvent, ticks, polled, tokenCache, verifying>>

PollFaults == {"none", "getHook", "select", "markEventsDelivered"}

(* Math.min(parseInt(c.req.query('limit') || '50'), 100) *)
PollLimit(q) ==
    MathMin(ParseInt(IF q.limit = NULL \/ Val(q.limit) = <<>> THEN DEFAULT_LIMIT
                     ELSE Val(q.limit)),
            Num(LIMIT_CAP))

(* the statement the poll selects with *)
PollSelect(E, hookId, undeliveredOnly, limit) ==
    IF undeliveredOnly THEN getUndeliveredEvents(E, hookId, limit)
    ELSE getEvents(E, hookId, limit)

(* a poll that marks only when mark_delivered=true was sent: the rows it marks *)
PollToMarkNever(rows, markDelivered) == <<>>

(* a marking that does not leave out the events already delivered *)
PollToMarkAll(rows, markDelivered) == IF markDelivered THEN rows ELSE <<>>

(* the rows the poll marks: those read with a falsy delivered_at *)
PollToMark(rows, markDelivered) ==
    IF markDelivered THEN SelectSeq(rows, LAMBDA r : r.delivered_at = NULL) ELSE <<>>

RECURSIVE MarkAll(_, _, _)
MarkAll(E, rows, t) ==
    IF rows = <<>> THEN E
    ELSE MarkAll(markEventsDelivered(E, Head(rows).id, t), Tail(rows), t)

PollError(t, hookId, q, status) ==
    [op |-> "poll", token |-> t, hookId |-> hookId, query |-> q, status |-> status,
     events |-> <<>>, count |-> 0, has_more |-> FALSE]

(* the events array of the poll's answer: the rows as they were read *)
(* a response that reports what the marking wrote *)
PollEventsBodyMarked(rows) ==
    [i \in 1..Len(rows) |->
        [id |-> rows[i].id, method |-> rows[i].method, headers |-> rows[i].headers,
         body |-> rows[i].body, query_params |-> rows[i].query_params,
         source_ip |-> rows[i].source_ip, received_at |-> rows[i].received_at,
         delivered_at |-> IF rows[i].delivered_at = NULL THEN Some(now)
                          ELSE rows[i].delivered_at]]

PollEventsBody(rows) ==
    [i \in 1..Len(rows) |->
        [id |-> rows[i].id, method |-> rows[i].method, headers |-> rows[i].headers,
         body |-> rows[i].body, query_params |-> rows[i].query_params,
         source_ip |-> rows[i].source_ip, received_at |-> rows[i].received_at,
         delivered_at |-> rows[i].delivered_at]]

(* GET /hooks/:id/events *)
PollEvents(t, hookId, q, fault) ==
    LET limit == PollLimit(q)
        undeliveredOnly == q.undelivered = Some("true")
        markDelivered == q.mark_delivered # Some("false")
        hook == getHook(hooks, hookId)
    IN  /\ IF fault = "getHook"
           THEN resp' = PollError(t, hookId, q, 500) /\ UNCHANGED <<events, polled, tokenCache, verifying>>
           ELSE IF hook = NULL
           THEN resp' = PollError(t, hookId, q, 404) /\ UNCHANGED <<events, polled, tokenCache, verifying>>
           ELSE IF Val(hook).api_key # t
           THEN resp' = PollError(t, hookId, q, 403) /\ UNCHANGED <<events, polled, tokenCache, verifying>>
           ELSE IF fault = "select" \/ limit.nan
           THEN resp' = PollError(t, hookId, q, 500) /\ UNCHANGED <<events, polled, tokenCache, verifying>>
           ELSE \E rows \in PollSelect(events, hookId, undeliveredOnly, limit.val) :
                  LET toMark == PollToMark(rows, markDelivered)
                  IN  IF fault = "markEventsDelivered" /\ toMark # <<>>
                      THEN \E k \in 1..Len(toMark) :
                              /\ events' = MarkAll(events, SubSeq(toMark, 1, k - 1), now)
                              /\ resp' = PollError(t, hookId, q, 500)
                              /\ UNCHANGED polled
                      ELSE /\ events' = MarkAll(events, toMark, now)
                           /\ polled' = IF markDelivered
                                         THEN polled \cup {rows[i].id : i \in 1..Len(rows)}
                                         ELSE polled
                           /\ resp' = [op |-> "poll", token |-> t, hookId |-> hookId,
                                       query |-> q, status |-> 200,
                                       events |-> PollEventsBody(rows),
                                       count |-> Len(rows),
                                       has_more |-> (Len(rows) = limit.val)]
        /\ UNCHANGED <<hooks, now, inflight, nextHook, nextEvent, ticks, tokenCache, verifying>>

-----------------------------------------------------------------------------
(* routes/webhook.ts: the public ingestion route *)

IngestFaults == {"none", "getHook", "createEvent", "updateHookTrigger", "markEventsDelivered"}

(* index.ts: app.use('*', cors({...})) stands before every route; hono/cors   *)
(* answers a request of method OPTIONS itself, with 204 and no body, and the  *)
(* route is not run                                                           *)
CorsPreflight(hookId) ==
    /\ resp' = [op |-> "preflight", hookId |-> hookId, status |-> 204,
                received |-> FALSE, event_id |-> NULL]
    /\ UNCHANGED <<hooks, events, now, inflight, nextHook, nextEvent, ticks, polled, tokenCache, verifying>>

(* a handler that answers Not Found for an unknown hook *)
IngestUnknownNotFound(hookId) ==
    [op |-> "ingest", hookId |-> hookId, status |-> 404, received |-> FALSE,
     event_id |-> NULL]

(* return c.json({ received: true }) of the unknown-hook branch *)
IngestUnknown(hookId) ==
    [op |-> "ingest", hookId |-> hookId, status |-> 200, received |-> TRUE,
     event_id |-> NULL]

(* a handler without the catch block: app.onError answers 500 *)
IngestCatchRethrows(hookId) ==
    [op |-> "ingest", hookId |-> hookId, status |-> 500, received |-> FALSE,
     event_id |-> NULL]

(* return c.json({ received: true }) of the catch block *)
IngestCatch(hookId) ==
    [op |-> "ingest", hookId |-> hookId, status |-> 200, received |-> TRUE,
     event_id |-> NULL]

(* return c.json({ received: true, event_id: eventId }) *)
IngestStored(hookId, eventId) ==
    [op |-> "ingest", hookId |-> hookId, status |-> 200, received |-> TRUE,
     event_id |-> Some(eventId)]

(* the headers kept: every one whose name is not excluded *)
StoredHeaders(h) == Restrict(h, DOMAIN h \ EXCLUDED_HEADERS)

(* Object.keys(queryParams).length > 0 ? JSON.stringify(queryParams) : null *)
StoredQueryParams(q) == IF DOMAIN q = {} THEN NULL ELSE Some(q)

(* c.req.header(name)?.split(',')[0]?.trim() || ... : the first entry, when the *)
(* header is present and not empty                                              *)
HeaderFirst(h, name) ==
    IF name \in DOMAIN h /\ h[name] # <<>> THEN Some(Head(h[name])) ELSE NULL

SourceIp(h) ==
    IF HeaderFirst(h, "x-forwarded-for") # NULL THEN HeaderFirst(h, "x-forwarded-for")
    ELSE IF HeaderFirst(h, "x-real-ip") # NULL THEN HeaderFirst(h, "x-real-ip")
    ELSE HeaderFirst(h, "cf-connecting-ip")

(* the body stored for a body read as rawBody *)
StoredBody(rawBody) ==
    IF StrLength(rawBody) <= MAX_BODY_SIZE
    THEN Some([kind |-> "text", text |-> rawBody])
    ELSE Some([kind |-> "marker", _truncated |-> TRUE,
               _original_size |-> StrLength(rawBody),
               _preview |-> Substring(rawBody, PREVIEW_LENGTH)])

(* deliverEvent: the events table after the dispatcher ran for eventId *)
(* a dispatcher that marks nothing *)
deliverEventNoMark(E, hook, eventId, fault) == E

deliverEvent(E, hook, eventId, fault) ==
    IF hook.delivery_config = NULL THEN E
    ELSE IF fault = "markEventsDelivered" THEN E
    ELSE markEventsDelivered(E, eventId, now)

(* The handler from "Get source IP" on: createEvent, updateHookTrigger, delivery. *)
IngestProcess(hookId, hook, req, body, eventId, fault) ==
    LET E1 == createEvent(events, eventId, hookId, req.method, StoredHeaders(req.headers),
                          body, StoredQueryParams(req.query), SourceIp(req.headers), now)
        H1 == updateHookTrigger(hooks, hookId, now)
        E2 == IF hook.delivery_method # "poll" /\ hook.delivery_config # NULL
              THEN deliverEvent(E1, hook, eventId, fault) ELSE E1
    IN  /\ IF fault = "createEvent"
              \/ createEventConstraintFails(events, hooks, eventId, hookId)
           THEN /\ UNCHANGED <<events, hooks, nextEvent>>
                /\ resp' = IngestCatch(hookId)
           ELSE IF fault = "updateHookTrigger"
           THEN /\ events' = E1
                /\ nextEvent' = IF eventId = nextEvent THEN nextEvent + 1 ELSE nextEvent
                /\ UNCHANGED hooks
                /\ resp' = IngestCatch(hookId)
           ELSE /\ events' = E2
                /\ hooks' = H1
                /\ nextEvent' = IF eventId = nextEvent THEN nextEvent + 1 ELSE nextEvent
                /\ resp' = IngestStored(hookId, eventId)

(* what the handler reads of `hook` after the await *)
HookSnapshot(h) == [delivery_method |-> h.delivery_method,
                    delivery_config |-> h.delivery_config]

(* ANY /webhook/:id up to `await c.req.text()`; a request of a method without a *)
(* body runs the handler to its end                                             *)
IngestReceive(hookId, req, eventId, fault) ==
    LET hook == getHook(hooks, hookId)
    IN  /\ IF fault = "getHook"
           THEN /\ resp' = IngestCatch(hookId)
                /\ UNCHANGED <<hooks, events, inflight, nextEvent>>
           ELSE IF hook = NULL
           THEN /\ resp' = IngestUnknown(hookId)
                /\ UNCHANGED <<hooks, events, inflight, nextEvent>>
           ELSE IF req.method \in BODY_METHODS
           THEN /\ inflight' = inflight \cup {[hookId |-> hookId, hook |-> HookSnapshot(Val(hook)),
                                               req |-> req]}
                /\ resp' = NoResp
                /\ UNCHANGED <<hooks, events, nextEvent>>
           ELSE /\ IngestProcess(hookId, HookSnapshot(Val(hook)), req, NULL, eventId, fault)
                /\ UNCHANGED inflight
        /\ UNCHANGED <<now, nextHook, ticks, polled, tokenCache, verifying>>

(* ANY /webhook/:id from the end of `await c.req.text()`; readOk: the read did  *)
(* not throw                                                                    *)
IngestBody(r, readOk, eventId, fault) ==
    /\ r \in inflight
    /\ fault # "getHook"
    /\ inflight' = inflight \ {r}
    /\ IngestProcess(r.hookId, r.hook, r.req,
                     IF readOk THEN StoredBody(r.req.body) ELSE NULL, eventId, fault)
    /\ UNCHANGED <<now, nextHook, ticks, polled, tokenCache, verifying>>

-----------------------------------------------------------------------------
(* index.ts: the hourly cleanup, and the clock *)

(* cleanupOldEvents, run by setInterval *)
(* a sweep that also sets every hook's event_count to the events it has left *)
CleanupRecount ==
    /\ events' = deleteOldEvents(events, now)
    /\ hooks' = [h \in DOMAIN hooks |->
                   [hooks[h] EXCEPT !.event_count =
                       Cardinality({e \in DOMAIN events' : events'[e].hook_id = h})]]
    /\ resp' = [op |-> "cleanup",
                deleted |-> Cardinality(DOMAIN events) - Cardinality(DOMAIN events')]
    /\ UNCHANGED <<now, inflight, nextHook, nextEvent, ticks, polled, tokenCache, verifying>>

Cleanup ==
    /\ events' = deleteOldEvents(events, now)
    /\ resp' = [op |-> "cleanup",
                deleted |-> Cardinality(DOMAIN events) - Cardinality(DOMAIN events')]
    /\ UNCHANGED <<hooks, now, inflight, nextHook, nextEvent, ticks, polled, tokenCache, verifying>>

Tick(d) ==
    /\ now' = now + d
    /\ ticks' = ticks + 1
    /\ resp' = NoResp
    /\ UNCHANGED <<hooks, events, inflight, nextHook, nextEvent, polled, tokenCache, verifying>>

-----------------------------------------------------------------------------
(* auth.ts: verifyToken and its cache, authMiddleware *)

TOKEN_CACHE_TTL == 60000

(* Date.now(), milliseconds; the clock of the model moves in whole seconds *)
DateNow == now * 1000

(* a TokenValidation *)
Validation(valid, user_id, credits, error) ==
    [valid |-> valid, user_id |-> user_id, credits |-> credits, error |-> error]

(* What the call to the authority ends in: a JSON document (data.valid absent *)
(* reads as false), a rejected fetch, or a body that response.json() rejects. *)
AuthorityAnswers ==
    {[kind |-> "json", data |-> Validation(TRUE, Some("u1"), Some(5), NULL)],
     [kind |-> "json", data |-> Validation(FALSE, NULL, NULL, Some("Invalid or expired token"))],
     [kind |-> "json", data |-> Validation(FALSE, NULL, NULL, NULL)],
     [kind |-> "fetch failed", data |-> Validation(FALSE, NULL, NULL, NULL)],
     [kind |-> "unparseable", data |-> Validation(FALSE, NULL, NULL, NULL)]}

(* a cache test that does not look at the expiry *)
CacheHitAnyAge(cache, token, t) == token \in DOMAIN cache

(* cached && cached.expires > Date.now() *)
(* a test that serves an entry for a further minute after its expiry *)
CacheHitWithGrace(cache, token, t) ==
    token \in DOMAIN cache /\ cache[token].expires + TOKEN_CACHE_TTL > t

CacheHit(cache, token, t) == token \in DOMAIN cache /\ cache[token].expires > t

(* a catch block that passes on what the authority sent last *)
UnavailableSilent == Validation(FALSE, NULL, NULL, NULL)

(* the catch block of verifyToken *)
Unavailable == Validation(FALSE, NULL, NULL, Some("Authentication service unavailable"))

(* what verifyToken returns after the call to the authority *)
VerifyResult(ans) == IF ans.kind = "json" THEN ans.data ELSE Unavailable

(* a cache write for every parsed answer *)
CacheWriteAll(cache, token, ans, t) ==
    IF ans.kind = "json"
    THEN [x \in DOMAIN cache \cup {token} |->
            IF x = token THEN [result |-> ans.data, expires |-> t + TOKEN_CACHE_TTL]
            ELSE cache[x]]
    ELSE cache

(* if (data.valid) tokenCache.set(token, {result: data, expires: Date.now() + TTL}) *)
CacheWrite(cache, token, ans, t) ==
    IF ans.kind = "json" /\ ans.data.valid
    THEN [x \in DOMAIN cache \cup {token} |->
            IF x = token THEN [result |-> ans.data, expires |-> t + TOKEN_CACHE_TTL]
            ELSE cache[x]]
    ELSE cache

(* Authorization header values, in the pieces the middleware takes them apart: *)
(* the first seven characters and the rest                                     *)
AuthHeaders ==
    {NULL, Some(<<"Basic ", "t1">>), Some(<<"bearer ", "t1">>), Some(<<"Bearer ">>),
     Some(<<"Bearer ", "t1">>), Some(<<"Bearer ", "t2">>)}

(* a test that takes any scheme *)
StartsWithAnyScheme(h) == Len(h) >= 1

(* authHeader.startsWith('Bearer ') *)
StartsWithBearer(h) == Len(h) >= 1 /\ h[1] = "Bearer "

(* authHeader.substring(7) *)
BearerToken(h) == IF Len(h) >= 2 THEN h[2] ELSE ""

(* a request to a route of the hooks router; what a route does not read is NULL *)
HooksRequest(route, hookId, query, body) ==
    [route |-> route, hookId |-> hookId, query |-> query, body |-> body]

HooksRequests ==
    {HooksRequest("create", NULL, NULL, Some(b)) : b \in CreateBodies}
    \cup {HooksRequest("list", NULL, NULL, NULL)}
    \cup {HooksRequest(r, Some(id), NULL, NULL) : r \in {"get", "delete"}, id \in HookIds}
    \cup {HooksRequest("poll", Some(id), Some(q), NULL) : id \in HookIds, q \in PollQueries}

(* return c.json({ error }, 401); via: where the validation came from, the *)
(* cache or the way the call to the authority ended                        *)
Unauthorized(header, validation, error, via) ==
    [op |-> "auth", status |-> 401, header |-> header, validation |-> validation,
     error |-> error, via |-> via]

(* c.set('auth', ...); await next() *)
Admitted(header, token, rq, validation, via) ==
    [op |-> "admitted", header |-> header, token |-> token, rq |-> rq,
     validation |-> Some(validation), via |-> via]

(* authMiddleware after verifyToken has returned *)
AuthDecide(header, token, rq, validation, via) ==
    IF ~validation.valid
    THEN Unauthorized(header, Some(validation),
                      IF validation.error = NULL THEN "Invalid token"
                      ELSE Val(validation.error), via)
    ELSE Admitted(header, token, rq, validation, via)

(* authMiddleware up to the end of verifyToken's cache test: an answer, or the *)
(* call to the authority                                                       *)
AuthReceive(header, rq) ==
    /\ IF header = NULL \/ ~StartsWithBearer(Val(header))
       THEN /\ resp' = Unauthorized(header, NULL, "Missing or invalid Authorization header",
                                      "none")
            /\ UNCHANGED verifying
       ELSE IF BearerToken(Val(header)) = ""
       THEN /\ resp' = Unauthorized(header, NULL, "API token required", "none")
            /\ UNCHANGED verifying
       ELSE IF CacheHit(tokenCache, BearerToken(Val(header)), DateNow)
       THEN /\ resp' = AuthDecide(header, BearerToken(Val(header)), rq,
                                  tokenCache[BearerToken(Val(header))].result, "cache")
            /\ UNCHANGED verifying
       ELSE /\ verifying' = Append(verifying, [header |-> header,
                                               token |-> BearerToken(Val(header)),
                                               rq |-> rq])
            /\ UNCHANGED resp
    /\ UNCHANGED <<hooks, events, now, inflight, nextHook, nextEvent, ticks, polled, tokenCache>>

(* verifyToken from the authority's answer on, and the rest of authMiddleware *)
AuthorityAnswer(i, ans) ==
    LET p == verifying[i]
    IN  /\ verifying' = [j \in 1..(Len(verifying) - 1) |->
                            IF j < i THEN verifying[j] ELSE verifying[j + 1]]
        /\ tokenCache' = CacheWrite(tokenCache, p.token, ans, DateNow)
        /\ resp' = AuthDecide(p.header, p.token, p.rq, VerifyResult(ans), ans.kind)
        /\ UNCHANGED <<hooks, events, now, inflight, nextHook, nextEvent, ticks, polled>>

(* the storage failures of the route of request rq *)
RouteFaults(rq) == IF rq.route = "poll" THEN PollFaults ELSE HookFaults

(* the creates among the requests waiting for the authority *)
PendingCreates ==
    Cardinality({i \in 1..Len(verifying) : verifying[i].rq.route = "create"})

(* the middleware will call the authority for a request with this header *)
CallsAuthority(header) ==
    /\ header # NULL
    /\ StartsWithBearer(Val(header))
    /\ BearerToken(Val(header)) # ""
    /\ ~CacheHit(tokenCache, BearerToken(Val(header)), DateNow)

(* a request that needs the authority is taken while fewer than cap wait for *)
(* it, a create while the ids it and the waiting creates take stay within    *)
(* hookCap                                                                   *)
AdmitsAuth(header, rq, cap, hookCap) ==
    /\ CallsAuthority(header) => Len(verifying) < cap
    /\ rq.route = "create" => nextHook + PendingCreates <= hookCap

(* the route the middleware passed the request on to *)
AuthNext(hookId, fault) ==
    /\ resp.op = "admitted"
    /\ CASE resp.rq.route = "create" ->
               CreateHook(resp.token, Val(resp.rq.body), hookId, fault)
         [] resp.rq.route = "list" -> ListHooks(resp.token, fault)
         [] resp.rq.route = "get" -> GetHook(resp.token, Val(resp.rq.hookId), fault)
         [] resp.rq.route = "delete" -> DeleteHook(resp.token, Val(resp.rq.hookId), fault)
         [] resp.rq.route = "poll" ->
               PollEvents(resp.token, Val(resp.rq.hookId), Val(resp.rq.query), fault)

-----------------------------------------------------------------------------

(* The state after construction: an empty database. *)
Init ==
    /\ hooks = <<>>
    /\ events = <<>>
    /\ now = 0
    /\ inflight = {}
    /\ nextHook = 1
    /\ nextEvent = 1
    /\ ticks = 0
    /\ polled = {}
    /\ tokenCache = <<>>
    /\ verifying = <<>>
    /\ resp = NoResp

(* The event loop runs one callback at a time: a handler answers, the answer *)
(* is sent, and the loop is idle again.                                     *)
Idle == resp = NoResp

Reply ==
    /\ resp # NoResp
    /\ resp.op # "admitted"
    /\ resp' = NoResp
    /\ UNCHANGED <<hooks, events, now, inflight, nextHook, nextEvent, ticks, polled, tokenCache, verifying>>

(* a new request is taken while fewer than cap ingestions await their body *)
Admits(req, cap) == req.method \in BODY_METHODS => Cardinality(inflight) < cap

(* The whole server. *)
Next ==
    \/ \E header \in AuthHeaders, rq \in HooksRequests :
          Idle /\ AdmitsAuth(header, rq, MaxVerifying, MaxHooks) /\ AuthReceive(header, rq)
    \/ \E i \in 1..Len(verifying), ans \in AuthorityAnswers : Idle /\ AuthorityAnswer(i, ans)
    \/ /\ resp.op = "admitted"
       /\ \E id \in NewHookIds(MaxHooks) \cup {nextHook}, f \in RouteFaults(resp.rq) :
             AuthNext(id, f)
    \/ \E id \in HookIds, req \in Requests, e \in NewEventIds(MaxEvents),
          f \in IngestFaults :
          Idle /\ Admits(req, MaxInflight) /\ IngestReceive(id, req, e, f)
    \/ \E r \in inflight, ok \in BOOLEAN, e \in NewEventIds(MaxEvents),
          f \in IngestFaults :
          Idle /\ IngestBody(r, ok, e, f)
    \/ \E id \in HookIds : Idle /\ CorsPreflight(id)
    \/ Idle /\ Cleanup
    \/ \E d \in TickDeltas : Idle /\ ticks < MaxTicks /\ Tick(d)
    \/ Reply

Spec == Init /\ [][Next]_vars

-----------------------------------------------------------------------------
(* Parts of the server, each started in a state Spec reaches by creating hooks *)
(* and each running the handlers of Next for a smaller set of requests.  A     *)
(* part that does not take the steps of authMiddleware runs a handler of      *)
(* /hooks for a token the middleware has admitted.                            *)

(* the hooks table after POST /hooks {} by t1 and POST /hooks {nostr} by t2 *)
TwoHooks ==
    createHook(createHook(<<>>, 1, "t1", NULL, NULL, "poll", NULL, 0),
               2, "t2", Some("gh"), NULL, "nostr", Some([nostr_pubkey |-> "npub"]), 0)

InitTwoHooks ==
    /\ hooks = TwoHooks
    /\ events = <<>>
    /\ now = 0
    /\ inflight = {}
    /\ nextHook = 3
    /\ nextEvent = 1
    /\ ticks = 0
    /\ polled = {}
    /\ tokenCache = <<>>
    /\ verifying = <<>>
    /\ resp = NoResp

(* Ingestion: requests to the two hooks and to an id no hook has, with every  *)
(* storage failure, while the owners delete their hooks.                      *)
IngestMaxEvents == 2
IngestMaxInflight == 1
IngestRequests == {r \in Requests : r.body \in {<<>>, Ascii(20)}}

NextIngest ==
    \/ \E id \in HookIds, req \in IngestRequests, e \in NewEventIds(IngestMaxEvents),
          f \in IngestFaults :
          Idle /\ Admits(req, IngestMaxInflight) /\ IngestReceive(id, req, e, f)
    \/ \E r \in inflight, ok \in BOOLEAN, e \in NewEventIds(IngestMaxEvents),
          f \in IngestFaults :
          Idle /\ IngestBody(r, ok, e, f)
    \/ \E id \in HookIds : Idle /\ CorsPreflight(id)
    \/ \E t \in Tokens, id \in HookIds : Idle /\ DeleteHook(t, id, "none")
    \/ Reply

SpecIngest == InitTwoHooks /\ [][NextIngest]_vars

-----------------------------------------------------------------------------
(* The registry: hooks are created, listed, read and deleted by two tokens,   *)
(* while GET requests are ingested.                                           *)
RegistryMaxHooks == 2
RegistryMaxEvents == 1
GetRequests == {r \in Requests : r.method = "GET"}

NextRegistry ==
    \/ \E t \in Tokens, body \in CreateBodies, id \in NewHookIds(RegistryMaxHooks),
          f \in HookFaults :
          Idle /\ CreateHook(t, body, id, f)
    \/ \E t \in Tokens, f \in HookFaults : Idle /\ ListHooks(t, f)
    \/ \E t \in Tokens, id \in HookIds, f \in HookFaults : Idle /\ GetHook(t, id, f)
    \/ \E t \in Tokens, id \in HookIds, f \in HookFaults : Idle /\ DeleteHook(t, id, f)
    \/ \E id \in HookIds, req \in GetRequests, e \in NewEventIds(RegistryMaxEvents) :
          Idle /\ IngestReceive(id, req, e, "none")
    \/ Reply

SpecRegistry == Init /\ [][NextRegistry]_vars

(* Polling: the owners poll their hooks with every query string, every token  *)
(* polls every id, while GET requests are ingested and the clock runs.        *)
PollMaxEvents == 2
PollMaxTicks == 1
FaultQueries == {DefaultQuery, Query(NULL, Some("true"), NULL)}

NextPoll ==
    \/ \E id \in HookIds, req \in GetRequests, e \in NewEventIds(PollMaxEvents) :
          Idle /\ IngestReceive(id, req, e, "none")
    \/ \E id \in DOMAIN hooks, q \in PollQueries :
          Idle /\ PollEvents(hooks[id].api_key, id, q, "none")
    \/ \E id \in DOMAIN hooks, q \in FaultQueries, f \in PollFaults :
          Idle /\ PollEvents(hooks[id].api_key, id, q, f)
    \/ \E t \in Tokens, id \in HookIds :
          Idle /\ PollEvents(t, id, DefaultQuery, "none")
    \/ Idle /\ ticks < PollMaxTicks /\ Tick(1)
    \/ Reply

SpecPoll == InitTwoHooks /\ [][NextPoll]_vars

(* Bodies: requests of every method and body size are ingested. *)
BodyMaxEvents == 1
BodyMaxInflight == 1

NextBody ==
    \/ \E id \in HookIds, req \in Requests, e \in NewEventIds(BodyMaxEvents) :
          Idle /\ Admits(req, BodyMaxInflight) /\ IngestReceive(id, req, e, "none")
    \/ \E r \in inflight, ok \in BOOLEAN, e \in NewEventIds(BodyMaxEvents) :
          Idle /\ IngestBody(r, ok, e, "none")
    \/ Reply

SpecBody == InitTwoHooks /\ [][NextBody]_vars

(* Retention: GET requests are ingested, the owners poll, the cleanup runs    *)
(* and the clock advances by a second or by the retention window.             *)
ReaperMaxEvents == 2
ReaperMaxTicks == 3
ReaperQueries == {DefaultQuery, Query(NULL, Some("true"), Some("false"))}

NextReaper ==
    \/ \E id \in DOMAIN hooks, req \in GetRequests, e \in NewEventIds(ReaperMaxEvents) :
          Idle /\ IngestReceive(id, req, e, "none")
    \/ \E id \in DOMAIN hooks, q \in ReaperQueries :
          Idle /\ PollEvents(hooks[id].api_key, id, q, "none")
    \/ Idle /\ Cleanup
    \/ \E d \in TickDeltas : Idle /\ ticks < ReaperMaxTicks /\ Tick(d)
    \/ Reply

SpecReaper == InitTwoHooks /\ [][NextReaper]_vars

(* The store alone: the events statements db.ts exports, run directly. *)
StoreMaxEvents == 2
StoreMaxTicks == 3

StoreCreateEvent(id, hook_id, req) ==
    /\ ~createEventConstraintFails(events, hooks, id, hook_id)
    /\ events' = createEvent(events, id, hook_id, req.method, req.headers, NULL,
                             NULL, NULL, now)
    /\ nextEvent' = nextEvent + 1
    /\ resp' = [op |-> "createEvent", id |-> id]
    /\ UNCHANGED <<hooks, now, inflight, nextHook, ticks, polled, tokenCache, verifying>>

StoreMarkEventsDelivered(id) ==
    /\ events' = markEventsDelivered(events, id, now)
    /\ resp' = [op |-> "markEventsDelivered", id |-> id]
    /\ UNCHANGED <<hooks, now, inflight, nextHook, nextEvent, ticks, polled, tokenCache, verifying>>

NextStore ==
    \/ \E hook_id \in DOMAIN hooks, req \in GetRequests :
          Idle /\ nextEvent <= StoreMaxEvents /\ StoreCreateEvent(nextEvent, hook_id, req)
    \/ \E id \in 1..StoreMaxEvents : Idle /\ StoreMarkEventsDelivered(id)
    \/ Idle /\ ticks < StoreMaxTicks /\ Tick(1)
    \/ Reply

SpecStore == InitTwoHooks /\ [][NextStore]_vars

-----------------------------------------------------------------------------
(* Properties of the ingestion route *)

EventsOf(E, hookId) == {e \in DOMAIN E : E[e].hook_id = hookId}

C8_EventIdIffInserted ==
    [][resp'.op = "ingest" =>
          /\ (resp'.event_id # NULL) <=> (DOMAIN events' \ DOMAIN events # {})
          /\ \A e \in DOMAIN events' \ DOMAIN events : resp'.event_id = Some(e)]_vars

-----------------------------------------------------------------------------
(* Properties of the store and of the authenticated routes *)

(* C2, as claimed: markDelivered of an event whose delivered_at is set leaves *)
(* delivered_at at the value the first call gave it.                          *)
C2_MarkDeliveredIdempotent ==
    [][(/\ resp'.op = "markEventsDelivered"
        /\ resp'.id \in DOMAIN events
        /\ events[resp'.id].delivered_at # NULL) =>
          events'[resp'.id].delivered_at = events[resp'.id].delivered_at]_vars

(* C3: for a hook H and a token O that is not H's owner, get(H, O) answers    *)
(* 403 with no hook in the payload and delete(H, O) answers 404, never 403,   *)
(* and changes neither table; for an id no hook has both answer 404.  The     *)
(* status is 500 instead when the statement throws.                           *)
C3_NonOwnerGetDelete ==
    [][/\ resp'.op = "get" =>
            IF resp'.hookId \notin DOMAIN hooks
            THEN resp'.status \in {404, 500} /\ resp'.hook = NULL
            ELSE hooks[resp'.hookId].api_key # resp'.token =>
                    resp'.status \in {403, 500} /\ resp'.hook = NULL
       /\ resp'.op = "delete" =>
            IF resp'.hookId \notin DOMAIN hooks
            THEN resp'.status \in {404, 500}
            ELSE hooks[resp'.hookId].api_key # resp'.token =>
                    /\ resp'.status \in {404, 500}
                    /\ hooks' = hooks
                    /\ events' = events]_vars

(* a token that does not own a hook holding an event was answered 404 to its  *)
(* delete, and the hook and its event are in the store                        *)
C3_Witness ==
    /\ resp.op = "delete"
    /\ resp.status = 404
    /\ resp.hookId \in DOMAIN hooks
    /\ hooks[resp.hookId].api_key # resp.token
    /\ EventsOf(events, resp.hookId) # {}

(* the events of hook h a poll selects among, as the store holds them *)
Matching(E, h, undeliveredOnly) ==
    {e \in EventsOf(E, h) : undeliveredOnly => E[e].delivered_at = NULL}

ReturnedIds(r) == {r.events[i].id : i \in 1..Len(r.events)}

(* C4: an owner's poll with undelivered=true returns only events of the hook  *)
(* with delivered_at null, oldest first; without it, events of the hook in    *)
(* any delivery state, newest first; with a limit n >= 0 the answer is the    *)
(* first n events of that order (all of them when there are fewer).           *)
C4_PollFilterOrderLimit ==
    [][(resp'.op = "poll" /\ resp'.status = 200) =>
          LET rows == resp'.events
              und == resp'.query.undelivered = Some("true")
              n == PollLimit(resp'.query).val
              M == Matching(events, resp'.hookId, und)
          IN  /\ ReturnedIds(resp') \subseteq M
              /\ \A i, j \in 1..Len(rows) : i # j => rows[i].id # rows[j].id
              /\ \A i \in 1..Len(rows) :
                    /\ rows[i].received_at = events[rows[i].id].received_at
                    /\ rows[i].delivered_at = events[rows[i].id].delivered_at
                    /\ und => rows[i].delivered_at = NULL
              /\ \A i, j \in 1..Len(rows) : i < j =>
                    IF und THEN rows[i].received_at <= rows[j].received_at
                           ELSE rows[i].received_at >= rows[j].received_at
              /\ n >= 0 =>
                    /\ Len(rows) = Min(n, Cardinality(M))
                    /\ \A m \in M \ ReturnedIds(resp') : \A i \in 1..Len(rows) :
                          IF und THEN rows[i].received_at <= events[m].received_at
                                 ELSE rows[i].received_at >= events[m].received_at]_vars

(* a poll without undelivered=true and with limit=1 returned the newer of two *)
(* events of the hook, received at different times, one of them delivered     *)
C4_Witness ==
    /\ resp.op = "poll"
    /\ resp.status = 200
    /\ resp.query.undelivered = NULL
    /\ resp.query.limit = Some(<<"1">>)
    /\ resp.count = 1
    /\ \E e \in EventsOf(events, resp.hookId) :
          /\ events[e].received_at < resp.events[1].received_at
          /\ events[e].delivered_at # NULL

(* C5, as claimed: whatever the limit parameter, a poll returns no more       *)
(* events than the requested limit capped at 100, and never more than 100.    *)
C5_CountWithinLimit ==
    [][resp'.op = "poll" =>
          LET requested == ParseInt(IF resp'.query.limit = NULL
                                       \/ Val(resp'.query.limit) = <<>>
                                    THEN DEFAULT_LIMIT ELSE Val(resp'.query.limit))
          IN  /\ Len(resp'.events) <= LIMIT_CAP
              /\ ~requested.nan =>
                    Len(resp'.events) <= Min(IF requested.val < 0 THEN 0
                                             ELSE requested.val, LIMIT_CAP)]_vars

(* C6: after an owner's poll that does not send mark_delivered=false, every   *)
(* event it returned has a delivered_at in the store; and a poll with         *)
(* undelivered=true returns no event that such a poll returned before.        *)
C6_MarkDeliveredByDefault ==
    [][(resp'.op = "poll" /\ resp'.status = 200) =>
          /\ resp'.query.mark_delivered # Some("false") =>
                \A e \in ReturnedIds(resp') :
                    e \in DOMAIN events' /\ events'[e].delivered_at # NULL
          /\ resp'.query.undelivered = Some("true") =>
                ReturnedIds(resp') \cap polled = {}]_vars

(* a poll with undelivered=true returned nothing from a hook all of whose     *)
(* events, two of them, an earlier poll with default parameters returned      *)
C6_Witness ==
    /\ resp.op = "poll"
    /\ resp.status = 200
    /\ resp.query.undelivered = Some("true")
    /\ resp.count = 0
    /\ hooks[resp.hookId].delivery_method = "poll"
    /\ Cardinality(EventsOf(events, resp.hookId)) = 2
    /\ EventsOf(events, resp.hookId) \subseteq polled

(* C9, as claimed: the body stored for a POST/PUT/PATCH request is the        *)
(* truncation marker when the body is longer than 100 KB in bytes, with       *)
(* _original_size the byte length and _preview a prefix of at most 1000       *)
(* characters, and the body itself otherwise.                                 *)
C9_TruncationByBytes ==
    [][\A e \in DOMAIN events' \ DOMAIN events : \A r \in inflight \ inflight' :
          events'[e].body # NULL =>
             LET raw == r.req.body
                 body == Val(events'[e].body)
             IN  IF ByteLength(raw) > MAX_BODY_SIZE
                 THEN /\ body.kind = "marker"
                      /\ body._truncated = TRUE
                      /\ body._original_size = ByteLength(raw)
                      /\ StrLength(body._preview) <= PREVIEW_LENGTH
                      /\ body._preview = Substring(raw, StrLength(body._preview))
                 ELSE body = [kind |-> "text", text |-> raw]]_vars

(* C10: a cleanup removes every event received more than 7 days before it,   *)
(* delivered or not, and keeps every other event as it is; an event that left *)
(* the store never comes back, and a poll returns only events in the store   *)
(* and, when it does not filter and its limit allows, all those of the hook.  *)
C10_RetentionSevenDays ==
    [][/\ resp'.op = "cleanup" =>
            \A e \in DOMAIN events :
               IF now - events[e].received_at > RETENTION_SECONDS
               THEN e \notin DOMAIN events'
               ELSE e \in DOMAIN events' /\ events'[e] = events[e]
       /\ \A e \in 1..(nextEvent - 1) : e \notin DOMAIN events => e \notin DOMAIN events'
       /\ (resp'.op = "poll" /\ resp'.status = 200) =>
            /\ ReturnedIds(resp') \subseteq DOMAIN events
            /\ (/\ resp'.query.undelivered = NULL
                /\ PollLimit(resp'.query).val >=
                      Cardinality(EventsOf(events, resp'.hookId))) =>
                  ReturnedIds(resp') = EventsOf(events, resp'.hookId)]_vars

(* a cleanup removed one of the two events a hook received, an undelivered    *)
(* one, and kept the other                                                    *)
C10_Witness ==
    /\ resp.op = "cleanup"
    /\ resp.deleted = 1
    /\ \E h \in DOMAIN hooks :
          /\ hooks[h].event_count = 2
          /\ hooks[h].delivery_method = "poll"
          /\ Cardinality(EventsOf(events, h)) = 1
          /\ polled = {}

-----------------------------------------------------------------------------
(* Deletion: the owners and the other tokens delete hooks that hold events,   *)
(* while requests to those hooks are ingested and a third hook is created.    *)
CascadeMaxHooks == 3
CascadeMaxEvents == 2
CascadeMaxInflight == 1
CascadeBodies == {b \in CreateBodies : b.delivery_method = NULL}
CascadeQuery == Query(NULL, NULL, Some("false"))

NextCascade ==
    \/ \E id \in HookIds, req \in IngestRequests, e \in NewEventIds(CascadeMaxEvents) :
          Idle /\ Admits(req, CascadeMaxInflight) /\ IngestReceive(id, req, e, "none")
    \/ \E r \in inflight, e \in NewEventIds(CascadeMaxEvents) :
          Idle /\ IngestBody(r, TRUE, e, "none")
    \/ \E t \in Tokens, id \in HookIds, f \in HookFaults : Idle /\ DeleteHook(t, id, f)
    \/ \E t \in Tokens, id \in HookIds : Idle /\ GetHook(t, id, "none")
    \/ \E t \in Tokens, id \in HookIds : Idle /\ PollEvents(t, id, CascadeQuery, "none")
    \/ \E t \in Tokens, body \in CascadeBodies, id \in NewHookIds(CascadeMaxHooks) :
          Idle /\ CreateHook(t, body, id, "none")
    \/ Reply

SpecCascade == InitTwoHooks /\ [][NextCascade]_vars

(* C11: a delete answered 200 was the owner's; after it the store holds       *)
(* neither the hook nor an event of the hook, and every other hook and every  *)
(* event of another hook is as before; a hook that left the store never comes *)
(* back and gets no event, and a get or poll of it answers 404.               *)
C11_DeleteCascades ==
    [][/\ (resp'.op = "delete" /\ resp'.status = 200) =>
            LET H == resp'.hookId
            IN  /\ H \in DOMAIN hooks
                /\ hooks[H].api_key = resp'.token
                /\ DOMAIN hooks' = DOMAIN hooks \ {H}
                /\ \A h \in DOMAIN hooks' : hooks'[h] = hooks[h]
                /\ DOMAIN events' = DOMAIN events \ EventsOf(events, H)
                /\ \A e \in DOMAIN events' : events'[e] = events[e]
       /\ \A h \in 1..(nextHook - 1) : h \notin DOMAIN hooks =>
            /\ h \notin DOMAIN hooks'
            /\ EventsOf(events', h) = {}
            /\ (resp'.op \in {"get", "poll"} /\ resp'.hookId = h) => resp'.status = 404]_vars

(* the owner's delete of a hook that held an event was answered 200, and an   *)
(* event of the other hook is in the store                                    *)
C11_Witness ==
    /\ resp.op = "delete"
    /\ resp.status = 200
    /\ nextEvent - 1 > Cardinality(DOMAIN events)
    /\ DOMAIN events # {}
    /\ DOMAIN hooks # {}

-----------------------------------------------------------------------------
(* The trigger counter: ingestion with every storage failure, polls that mark, *)
(* reaper sweeps and the owners' deletes.                                      *)
CounterMaxEvents == 2
CounterMaxTicks == 1

NextCounter ==
    \/ \E id \in DOMAIN hooks, req \in GetRequests, e \in NewEventIds(CounterMaxEvents),
          f \in IngestFaults :
          Idle /\ IngestReceive(id, req, e, f)
    \/ \E id \in DOMAIN hooks : Idle /\ PollEvents(hooks[id].api_key, id, DefaultQuery, "none")
    \/ \E id \in DOMAIN hooks : Idle /\ DeleteHook(hooks[id].api_key, id, "none")
    \/ Idle /\ Cleanup
    \/ Idle /\ ticks < CounterMaxTicks /\ Tick(RETENTION_SECONDS + 1)
    \/ Reply

SpecCounter == InitTwoHooks /\ [][NextCounter]_vars

(* C12: over every step a hook's event_count does not decrease; it changes    *)
(* only in an ingestion to that hook, by one, and an ingestion answered with  *)
(* an event_id has incremented it; sweeps, polls and marking leave it alone.  *)
C12_EventCountMonotone ==
    [][\A h \in DOMAIN hooks \cap DOMAIN hooks' :
          /\ hooks'[h].event_count >= hooks[h].event_count
          /\ hooks'[h].event_count # hooks[h].event_count =>
                /\ hooks'[h].event_count = hooks[h].event_count + 1
                /\ resp'.op = "ingest"
                /\ resp'.hookId = h
          /\ (resp'.op = "ingest" /\ resp'.hookId = h /\ resp'.event_id # NULL) =>
                hooks'[h].event_count = hooks[h].event_count + 1]_vars

(* a sweep removed the two events a hook had received, and its event_count    *)
(* is still 2                                                                 *)
C12_Witness ==
    /\ resp.op = "cleanup"
    /\ resp.deleted >= 1
    /\ \E h \in DOMAIN hooks :
          /\ hooks[h].event_count = 2
          /\ EventsOf(events, h) = {}

-----------------------------------------------------------------------------
(* Authentication: requests to the hooks router with every Authorization      *)
(* header, the authority answering in every way and in any order, the clock   *)
(* passing the expiry of the cache entries.                                   *)
AuthMaxVerifying == 1
AuthMaxTicks == 2
AuthMaxEvents == 1
AuthTickDeltas == {1, 59}
AuthRequests ==
    {HooksRequest("delete", Some(1), NULL, NULL),
     HooksRequest("poll", Some(1), Some(DefaultQuery), NULL)}

NextAuth ==
    \/ \E header \in AuthHeaders, rq \in AuthRequests :
          Idle /\ AdmitsAuth(header, rq, AuthMaxVerifying, 0) /\ AuthReceive(header, rq)
    \/ \E i \in 1..Len(verifying), ans \in AuthorityAnswers : Idle /\ AuthorityAnswer(i, ans)
    \/ AuthNext(nextHook, "none")
    \/ \E req \in GetRequests, e \in NewEventIds(AuthMaxEvents) :
          Idle /\ IngestReceive(1, req, e, "none")
    \/ \E d \in AuthTickDeltas : Idle /\ ticks < AuthMaxTicks /\ Tick(d)
    \/ Reply

SpecAuth == InitTwoHooks /\ [][NextAuth]_vars

(* the request that joined the requests waiting for the authority in a step *)
Called == verifying'[Len(verifying')]

(* C13: a verify that finds a cache entry of the token with its expiry in the *)
(* future returns the entry's result and calls nobody; a call to the          *)
(* authority is made only for a token with no entry or with an entry whose    *)
(* expiry has passed, and an entry expires 60 s after the answer that made it *)
(* at the latest.                                                             *)
C13_CacheHitNoCall ==
    [][/\ (resp'.op \in {"admitted", "auth"} /\ resp'.via = "cache") =>
            /\ resp'.op = "admitted"
            /\ resp'.token \in DOMAIN tokenCache
            /\ tokenCache[resp'.token].expires > now * 1000
            /\ resp'.validation = Some(tokenCache[resp'.token].result)
            /\ verifying' = verifying
            /\ tokenCache' = tokenCache
       /\ Len(verifying') > Len(verifying) =>
            \/ Called.token \notin DOMAIN tokenCache
            \/ tokenCache[Called.token].expires <= now * 1000
       /\ \A t \in DOMAIN tokenCache' :
            /\ tokenCache'[t].expires <= now * 1000 + 60000
            /\ t \in DOMAIN tokenCache =>
                  \/ tokenCache'[t] = tokenCache[t]
                  \/ tokenCache'[t].expires = now * 1000 + 60000]_vars

(* a request was admitted on the cache 59 s after the answer that made the    *)
(* entry, while a request of another token, whose entry expired this very     *)
(* millisecond, waits for the authority                                       *)
C13_Witness ==
    /\ resp.op = "admitted"
    /\ resp.via = "cache"
    /\ tokenCache[resp.token].expires = now * 1000 + 1000
    /\ Len(verifying) >= 1
    /\ verifying[1].token \in DOMAIN tokenCache
    /\ tokenCache[verifying[1].token].expires = now * 1000

(* C14: every entry of the cache holds a result with valid = true; a verify   *)
(* that ends invalid got its result from a call to the authority made for it, *)
(* never from the cache, and leaves the cache unchanged.                      *)
C14_NoNegativeCaching ==
    [][/\ \A t \in DOMAIN tokenCache' : tokenCache'[t].result.valid = TRUE
       /\ (resp'.op = "auth" /\ resp'.validation # NULL /\ resp' # resp) =>
            /\ resp'.via # "cache"
            /\ Len(verifying') = Len(verifying) - 1
            /\ tokenCache' = tokenCache]_vars

(* the authority rejected a token that has no cache entry, one second after   *)
(* the start, while the cache holds an entry of the other token               *)
C14_Witness ==
    /\ resp.op = "auth"
    /\ resp.via = "json"
    /\ resp.error = "Invalid or expired token"
    /\ BearerToken(Val(resp.header)) \notin DOMAIN tokenCache
    /\ DOMAIN tokenCache # {}
    /\ now = 1

(* C15: when the call to the authority fails, by a rejected fetch or by a     *)
(* body that does not parse, the request is answered 401 with the error       *)
(* 'Authentication service unavailable', the validation has valid = false,    *)
(* and neither the cache nor the tables change.                               *)
C15_AuthorityUnavailable ==
    [][(/\ resp'.op \in {"admitted", "auth"}
        /\ resp'.via \in {"fetch failed", "unparseable"}) =>
          /\ resp'.op = "auth"
          /\ resp'.status = 401
          /\ resp'.error = "Authentication service unavailable"
          /\ Val(resp'.validation).valid = FALSE
          /\ tokenCache' = tokenCache
          /\ hooks' = hooks
          /\ events' = events]_vars

(* the authority's answer did not parse for a token whose cache entry, made   *)
(* by an earlier answer, has expired                                          *)
C15_Witness ==
    /\ resp.op = "auth"
    /\ resp.via = "unparseable"
    /\ resp.status = 401
    /\ BearerToken(Val(resp.header)) \in DOMAIN tokenCache
    /\ tokenCache[BearerToken(Val(resp.header))].expires <= now * 1000

(* the header of a request carries no bearer token *)
NoBearer(header) ==
    \/ header = NULL
    \/ Val(header)[1] # "Bearer "
    \/ Len(Val(header)) < 2

-----------------------------------------------------------------------------
(* Tenants: two tokens create hooks at different times, requests to the first  *)
(* hook are ingested, and each token lists its hooks and polls every hook id.  *)
TenantMaxHooks == 3
TenantMaxEvents == 1
TenantMaxTicks == 1
TenantQueries == {DefaultQuery, Query(NULL, Some("true"), NULL)}

NextTenant ==
    \/ \E t \in Tokens, body \in CascadeBodies, id \in NewHookIds(TenantMaxHooks) :
          Idle /\ CreateHook(t, body, id, "none")
    \/ \E t \in Tokens, f \in HookFaults : Idle /\ ListHooks(t, f)
    \/ \E t \in Tokens, id \in HookIds, q \in TenantQueries, f \in {"none", "getHook"} :
          Idle /\ PollEvents(t, id, q, f)
    \/ \E req \in GetRequests, e \in NewEventIds(TenantMaxEvents) :
          Idle /\ IngestReceive(1, req, e, "none")
    \/ Idle /\ ticks < TenantMaxTicks /\ Tick(1)
    \/ Reply

SpecTenant == Init /\ [][NextTenant]_vars

(* C17: a list answered 200 holds exactly the hooks whose api_key is the      *)
(* caller's token, each once and as stored, by created_at from the newest to  *)
(* the oldest; a poll of a hook by a token that is not its api_key is         *)
(* answered 403 (500 when the lookup fails), with no event, and changes no    *)
(* event.                                                                     *)
C17_TenantIsolation ==
    [][/\ (resp'.op = "list" /\ resp'.status = 200) =>
            LET L == resp'.hooks
            IN  /\ {L[i].id : i \in 1..Len(L)} =
                      {h \in DOMAIN hooks : hooks[h].api_key = resp'.token}
                /\ \A i, j \in 1..Len(L) : i # j => L[i].id # L[j].id
                /\ \A i \in 1..Len(L) :
                      /\ L[i].created_at = hooks[L[i].id].created_at
                      /\ L[i].event_count = hooks[L[i].id].event_count
                      /\ L[i].last_triggered_at = hooks[L[i].id].last_triggered_at
                /\ \A i, j \in 1..Len(L) : i < j => L[i].created_at >= L[j].created_at
       /\ (/\ resp'.op = "poll"
           /\ resp'.hookId \in DOMAIN hooks
           /\ hooks[resp'.hookId].api_key # resp'.token) =>
            /\ resp'.status \in {403, 500}
            /\ resp'.events = <<>>
            /\ resp'.count = 0
            /\ events' = events
            /\ polled' = polled]_vars

(* a token listed its two hooks, the newer first, while the store holds a     *)
(* third hook, of the other token, that has received an event                 *)
C17_Witness ==
    /\ resp.op = "list"
    /\ resp.status = 200
    /\ Len(resp.hooks) = 2
    /\ resp.hooks[1].created_at > resp.hooks[2].created_at
    /\ \E h \in DOMAIN hooks : hooks[h].api_key # resp.token /\ hooks[h].event_count = 1

-----------------------------------------------------------------------------
(* Properties of hook creation *)

(* C18: a create answered 201 stored a hook under an id no hook had, the id   *)
(* it returns, with the caller's token as api_key, the delivery_method of the *)
(* request or 'poll' when it gave none, event_count 0 and no                  *)
(* last_triggered_at, and returns {base}/webhook/{id} for that id; any other  *)
(* create is answered 500 and leaves the store unchanged; no create alters a  *)
(* hook that was in the store.                                                *)
C18_CreateUniqueId ==
    [][resp'.op = "create" =>
          /\ \A h \in DOMAIN hooks : h \in DOMAIN hooks' /\ hooks'[h] = hooks[h]
          /\ events' = events
          /\ IF resp'.status = 201
             THEN LET id == resp'.id
                  IN  /\ id \notin DOMAIN hooks
                      /\ DOMAIN hooks' = DOMAIN hooks \cup {id}
                      /\ hooks'[id].id = id
                      /\ hooks'[id].api_key = resp'.token
                      /\ hooks'[id].delivery_method =
                            (IF resp'.body.delivery_method = NULL THEN "poll"
                             ELSE Val(resp'.body.delivery_method))
                      /\ hooks'[id].event_count = 0
                      /\ hooks'[id].last_triggered_at = NULL
                      /\ resp'.webhook_url = <<"https://api.klawhook.xyz", "/webhook/", id>>
             ELSE resp'.status = 500 /\ hooks' = hooks]_vars

(* a second hook was created, by a request that gave no delivery_method, and  *)
(* is stored as a poll hook next to a first hook that has received an event   *)
C18_Witness ==
    /\ resp.op = "create"
    /\ resp.status = 201
    /\ resp.id = 2
    /\ resp.body.delivery_method = NULL
    /\ hooks[2].delivery_method = "poll"
    /\ 1 \in DOMAIN hooks
    /\ hooks[1].event_count = 1

-----------------------------------------------------------------------------
(* Stored events: ingestion whose body is read while other requests are       *)
(* handled, push delivery at ingestion, the owners' polls with and without    *)
(* marking, the cleanup and the clock, with a failure of the marking at       *)
(* ingestion and in the middle of a poll.                                     *)
StoredMaxEvents == 1
StoredMaxInflight == 1
StoredMaxTicks == 2
StoredPollFaults == {"none", "markEventsDelivered"}
StoredIngestFaults == {"none", "markEventsDelivered"}
StoredRequests == {r \in Requests : r.method = "GET" \/ r.body = Ascii(20)}

NextStored ==
    \/ \E id \in DOMAIN hooks, req \in StoredRequests, e \in NewEventIds(StoredMaxEvents),
          f \in StoredIngestFaults :
          Idle /\ Admits(req, StoredMaxInflight) /\ IngestReceive(id, req, e, f)
    \/ \E r \in inflight, ok \in BOOLEAN, e \in NewEventIds(StoredMaxEvents),
          f \in StoredIngestFaults :
          Idle /\ IngestBody(r, ok, e, f)
    \/ \E id \in DOMAIN hooks, q \in ReaperQueries, f \in StoredPollFaults :
          Idle /\ PollEvents(hooks[id].api_key, id, q, f)
    \/ Idle /\ Cleanup
    \/ Idle /\ ticks < StoredMaxTicks /\ Tick(RETENTION_SECONDS + 1)
    \/ Reply

SpecStored == InitTwoHooks /\ [][NextStored]_vars

-----------------------------------------------------------------------------
(* Consumption of a poll hook as a queue: ingestion into hook 1, its owner's  *)
(* polls with undelivered=true that mark what they return, one event at a     *)
(* time or up to the default limit, the cleanup and the clock.  The owner     *)
(* keeps polling and every response is sent.                                  *)
QueueMaxEvents == 2
QueueMaxTicks == 1
QueueHook == 1
QueueQueries == {Query(Some(<<"1">>), Some("true"), NULL), Query(NULL, Some("true"), NULL)}

QueueIngest ==
    \E req \in GetRequests, e \in NewEventIds(QueueMaxEvents) :
        Idle /\ IngestReceive(QueueHook, req, e, "none")

QueuePoll ==
    \E q \in QueueQueries :
        Idle /\ PollEvents(hooks[QueueHook].api_key, QueueHook, q, "none")

NextQueue ==
    \/ QueueIngest
    \/ QueuePoll
    \/ Idle /\ Cleanup
    \/ \E d \in TickDeltas : Idle /\ ticks < QueueMaxTicks /\ Tick(d)
    \/ Reply

SpecQueue ==
    InitTwoHooks /\ [][NextQueue]_vars /\ SF_vars(QueuePoll) /\ WF_vars(Reply)

-----------------------------------------------------------------------------
(* Trigger statistics *)

(* C21, as claimed: whenever no ingestion is in flight, event_count of every  *)
(* hook is the number of Event rows created for it, also when a storage step  *)
(* of an ingestion fails, and last_triggered_at is set exactly when           *)
(* event_count > 0.  Where no event is purged, as under SpecIngest, the rows   *)
(* created for a hook are the rows the store holds for it.                    *)
C21_CountTracksCreation ==
    inflight = {} =>
        \A h \in DOMAIN hooks :
            /\ hooks[h].event_count = Cardinality(EventsOf(events, h))
            /\ (hooks[h].last_triggered_at # NULL) <=> (hooks[h].event_count > 0)

-----------------------------------------------------------------------------
(* The poll against a store that other connections write to.  The handler     *)
(* opens no transaction: its select and each markEventsDelivered.run is a     *)
(* statement that commits on its own, so a sweep or a cascade delete          *)
(* committed by another connection to the database file can fall between     *)
(* the select and the marking.  (Inside one server process nothing runs       *)
(* between them: the handler has no await after the select.)                  *)
RaceMaxEvents == 2
RaceMaxTicks == 1
RaceQueries == {DefaultQuery, Query(NULL, Some("true"), NULL)}

(* getHook, the ownership test and the select *)
PollRead(t, hookId, q) ==
    LET limit == PollLimit(q)
        undeliveredOnly == q.undelivered = Some("true")
        hook == getHook(hooks, hookId)
    IN  /\ IF hook = NULL
           THEN resp' = PollError(t, hookId, q, 404)
           ELSE IF Val(hook).api_key # t
           THEN resp' = PollError(t, hookId, q, 403)
           ELSE IF limit.nan
           THEN resp' = PollError(t, hookId, q, 500)
           ELSE \E rows \in PollSelect(events, hookId, undeliveredOnly, limit.val) :
                   resp' = [op |-> "polling", token |-> t, hookId |-> hookId,
                            query |-> q, rows |-> rows]
        /\ UNCHANGED <<hooks, events, now, inflight, nextHook, nextEvent, ticks, polled,
                       tokenCache, verifying>>

(* the marking loop and the response, built from the rows that were read *)
PollMark ==
    LET rows == resp.rows
        markDelivered == resp.query.mark_delivered # Some("false")
    IN  /\ resp.op = "polling"
        /\ events' = MarkAll(events, PollToMark(rows, markDelivered), now)
        /\ polled' = IF markDelivered
                      THEN polled \cup {rows[i].id : i \in 1..Len(rows)}
                      ELSE polled
        /\ resp' = [op |-> "poll", token |-> resp.token, hookId |-> resp.hookId,
                    query |-> resp.query, status |-> 200,
                    events |-> PollEventsBody(rows),
                    count |-> Len(rows),
                    has_more |-> (Len(rows) = PollLimit(resp.query).val)]
        /\ UNCHANGED <<hooks, now, inflight, nextHook, nextEvent, ticks, tokenCache,
                       verifying>>

(* deleteOldEvents committed between the select and the marking *)
RaceSweep ==
    /\ resp.op = "polling"
    /\ events' = deleteOldEvents(events, now)
    /\ events' # events
    /\ UNCHANGED <<hooks, now, inflight, nextHook, nextEvent, ticks, polled, tokenCache,
                   verifying, resp>>

(* the owner's deleteHook, with its cascade, committed between the two *)
RaceCascade ==
    /\ resp.op = "polling"
    /\ resp.hookId \in DOMAIN hooks
    /\ hooks' = deleteHook(hooks, resp.hookId, resp.token)
    /\ events' = cascadeDelete(events, hooks')
    /\ UNCHANGED <<now, inflight, nextHook, nextEvent, ticks, polled, tokenCache,
                   verifying, resp>>

NextRace ==
    \/ \E req \in GetRequests, e \in NewEventIds(RaceMaxEvents) :
          Idle /\ IngestReceive(1, req, e, "none")
    \/ \E q \in RaceQueries : Idle /\ PollRead("t1", 1, q)
    \/ RaceSweep
    \/ RaceCascade
    \/ PollMark
    \/ Idle /\ Cleanup
    \/ Idle /\ ticks < RaceMaxTicks /\ Tick(RETENTION_SECONDS + 1)
    \/ resp.op # "polling" /\ Reply

SpecRace == InitTwoHooks /\ [][NextRace]_vars

(* C22: when a sweep or a cascade delete has removed an event between a       *)
(* poll's select and its marking, the marking changes no row and creates      *)
(* none, the poll answers 200 with every event it read, the removed one       *)
(* included, and no later select finds the removed event.                     *)
C22_ReaperPollRace ==
    [][/\ (resp.op = "polling" /\ resp'.op = "poll") =>
             LET read == {resp.rows[i].id : i \in 1..Len(resp.rows)}
             IN  /\ resp'.status = 200
                 /\ ReturnedIds(resp') = read
                 /\ resp'.count = Len(resp.rows)
                 /\ DOMAIN events' = DOMAIN events
                 /\ \A e \in DOMAIN events \ read : events'[e] = events[e]
                 /\ \A e \in read \ DOMAIN events : e \notin DOMAIN events'
       /\ (resp.op # "polling" /\ resp'.op = "polling") =>
             \A i \in 1..Len(resp'.rows) :
                /\ resp'.rows[i].id \in DOMAIN events
                /\ resp'.rows[i] = events[resp'.rows[i].id]]_vars

(* a poll has answered with an event that a sweep removed after the poll had  *)
(* read it, while a newer event of the hook is still stored                   *)
C22_Witness ==
    /\ resp.op = "poll"
    /\ resp.status = 200
    /\ hooks # <<>>
    /\ \E e \in ReturnedIds(resp) : e \notin DOMAIN events
    /\ \E e \in ReturnedIds(resp) : e \in DOMAIN events /\ events[e].delivered_at # NULL

-----------------------------------------------------------------------------
(* Ingestion against deletion: requests to hooks the store holds, without and *)
(* with a body to read, with every storage failure, while the owners delete   *)
(* their hooks.  An ingestion answered for an id the store does not hold is   *)
(* one whose hook was deleted while its body was read.                        *)
OrphanMaxEvents == 2
OrphanMaxInflight == 1

NextOrphan ==
    \/ \E id \in DOMAIN hooks, req \in StoredRequests, e \in NewEventIds(OrphanMaxEvents),
          f \in IngestFaults :
          Idle /\ Admits(req, OrphanMaxInflight) /\ IngestReceive(id, req, e, f)
    \/ \E r \in inflight, ok \in BOOLEAN, e \in NewEventIds(OrphanMaxEvents),
          f \in IngestFaults :
          Idle /\ IngestBody(r, ok, e, f)
    \/ \E id \in DOMAIN hooks : Idle /\ DeleteHook(hooks[id].api_key, id, "none")
    \/ Reply

SpecOrphan == InitTwoHooks /\ [][NextOrphan]_vars

(* C23: every stored event belongs to a stored hook; and an ingestion whose   *)
(* hook was deleted between its lookup and its insert, while the body was     *)
(* read, inserts no event and is answered 200 {received: true}.               *)
C23_NoOrphanEvents ==
    /\ [](\A e \in DOMAIN events : events[e].hook_id \in DOMAIN hooks)
    /\ [][\A r \in inflight \ inflight' :
             r.hookId \notin DOMAIN hooks =>
                /\ events' = events
                /\ hooks' = hooks
                /\ resp'.op = "ingest"
                /\ resp'.status = 200
                /\ resp'.received = TRUE
                /\ resp'.event_id = NULL]_vars

(* an ingestion has been answered for a hook that was deleted while the       *)
(* request's body was read; the other hook holds an event                     *)
C23_Witness ==
    /\ resp.op = "ingest"
    /\ resp.hookId \notin DOMAIN hooks
    /\ inflight = {}
    /\ DOMAIN events # {}

-----------------------------------------------------------------------------
(* Verifications in parallel: requests carrying the two tokens arrive while   *)
(* earlier requests wait for the authority, which answers in any order.       *)
DedupMaxVerifying == 2
DedupMaxTicks == 1
DedupHeaders == {Some(<<"Bearer ", "t1">>), Some(<<"Bearer ", "t2">>)}
DedupRequests == {HooksRequest("poll", Some(1), Some(CascadeQuery), NULL)}

NextDedup ==
    \/ \E header \in DedupHeaders, rq \in DedupRequests :
          Idle /\ AdmitsAuth(header, rq, DedupMaxVerifying, 0) /\ AuthReceive(header, rq)
    \/ \E i \in 1..Len(verifying), ans \in AuthorityAnswers : Idle /\ AuthorityAnswer(i, ans)
    \/ AuthNext(nextHook, "none")
    \/ Idle /\ ticks < DedupMaxTicks /\ Tick(59)
    \/ Reply

SpecDedup == InitTwoHooks /\ [][NextDedup]_vars

(* C24, as claimed: verifications of one token started concurrently, while    *)
(* the cache holds no fresh entry for it, share one call to the authority:    *)
(* no call is started for a token while a call for that token is outstanding. *)
C24_OneCallPerWindow ==
    [][Len(verifying') > Len(verifying) =>
          \A i \in 1..Len(verifying) : verifying[i].token # Called.token]_vars

-----------------------------------------------------------------------------
(* Staleness of the token cache *)

(* C25: a request is admitted only less than 60 s after the last response of  *)
(* the authority that accepted its token (the entry of a token is written by  *)
(* every accepting response and by nothing else, and never removed, so that   *)
(* response came at expires - 60000); an answer from the cache leaves the     *)
(* cache as it is, and an entry's expiry moves only when the authority        *)
(* accepts the token again; a request that is not admitted after the          *)
(* authority was asked is answered 401.                                       *)
C25_BoundedStaleness ==
    [][/\ (resp'.op = "admitted" /\ resp' # resp) =>
            /\ resp'.token \in DOMAIN tokenCache'
            /\ tokenCache'[resp'.token].expires - TOKEN_CACHE_TTL <= DateNow
            /\ DateNow < tokenCache'[resp'.token].expires
            /\ resp'.via = "cache" => tokenCache' = tokenCache
       /\ \A t \in DOMAIN tokenCache :
            /\ t \in DOMAIN tokenCache'
            /\ tokenCache'[t] # tokenCache[t] =>
                  /\ Len(verifying') = Len(verifying) - 1
                  /\ resp'.op = "admitted"
                  /\ resp'.token = t
                  /\ resp'.via = "json"
                  /\ tokenCache'[t].expires = DateNow + TOKEN_CACHE_TTL
       /\ (Len(verifying') < Len(verifying) /\ resp'.op # "admitted") =>
            resp'.op = "auth" /\ resp'.status = 401]_vars

(* a token whose entry has expired, 60 s after the authority accepted it, was *)
(* checked with the authority again, rejected and answered 401                *)
C25_Witness ==
    /\ resp.op = "auth"
    /\ resp.status = 401
    /\ resp.via = "json"
    /\ resp.header = Some(<<"Bearer ", "t1">>)
    /\ "t1" \in DOMAIN tokenCache
    /\ tokenCache["t1"].expires = DateNow

-----------------------------------------------------------------------------
(* The dispatcher: ingestion into a poll hook, a nostr hook with a            *)
(* delivery_config and an email hook created without one, and the owners'     *)
(* polls for undelivered events.  The storage failures are those that leave   *)
(* no event behind.                                                           *)
DispatchMaxHooks == 3
DispatchMaxEvents == 2
DispatchMaxInflight == 1
DispatchBodies == {b \in CreateBodies : b.delivery_method = Some("email")}
DispatchFaults == {"none", "getHook", "createEvent"}
DispatchQueries == {Query(NULL, Some("true"), Some("false"))}

NextDispatch ==
    \/ \E body \in DispatchBodies, id \in NewHookIds(DispatchMaxHooks) :
          Idle /\ CreateHook("t1", body, id, "none")
    \/ \E id \in DOMAIN hooks, req \in StoredRequests, e \in NewEventIds(DispatchMaxEvents),
          f \in DispatchFaults :
          Idle /\ Admits(req, DispatchMaxInflight) /\ IngestReceive(id, req, e, f)
    \/ \E r \in inflight, ok \in BOOLEAN, e \in NewEventIds(DispatchMaxEvents),
          f \in DispatchFaults \ {"getHook"} :
          Idle /\ IngestBody(r, ok, e, f)
    \/ \E id \in DOMAIN hooks, q \in DispatchQueries :
          Idle /\ PollEvents(hooks[id].api_key, id, q, "none")
    \/ Reply

SpecDispatch == InitTwoHooks /\ [][NextDispatch]_vars

Dispatched(h) == h.delivery_method # "poll" /\ h.delivery_config # NULL

-----------------------------------------------------------------------------
(* Hook configuration *)

(* C27, as claimed: every stored hook has a delivery_method among poll, nostr *)
(* and email, and a hook whose delivery_method is not poll has a              *)
(* delivery_config.                                                           *)
C27_HookConfigInvariant ==
    \A h \in DOMAIN hooks :
        /\ hooks[h].delivery_method \in {"poll", "nostr", "email"}
        /\ hooks[h].delivery_method # "poll" => hooks[h].delivery_config # NULL

-----------------------------------------------------------------------------
(* The poll response *)

(* C28: the delivered_at a poll reports for an event is the one the event had *)
(* in the store when the poll read it; an event that had none and that the    *)
(* poll marks is reported with delivered_at null while the store holds the    *)
(* time of the poll for it afterwards.                                        *)
C28_ReportsPreMarkDeliveredAt ==
    [][(resp'.op = "poll" /\ resp'.status = 200) =>
          \A i \in 1..Len(resp'.events) :
             LET e == resp'.events[i].id
             IN  /\ e \in DOMAIN events
                 /\ resp'.events[i].delivered_at = events[e].delivered_at
                 /\ (events[e].delivered_at = NULL
                       /\ resp'.query.mark_delivered # Some("false")) =>
                       /\ resp'.events[i].delivered_at = NULL
                       /\ events'[e].delivered_at = Some(now)]_vars

(* a poll with default parameters has returned an event with delivered_at     *)
(* null that the store now holds with a delivered_at, next to an event it     *)
(* returned with the delivered_at an earlier poll gave it                     *)
C28_Witness ==
    /\ resp.op = "poll"
    /\ resp.status = 200
    /\ resp.query.mark_delivered = NULL
    /\ \E i \in 1..Len(resp.events) :
          /\ resp.events[i].delivered_at = NULL
          /\ events[resp.events[i].id].delivered_at = Some(now)
    /\ \E i \in 1..Len(resp.events) :
          /\ resp.events[i].delivered_at # NULL
          /\ resp.events[i].delivered_at = events[resp.events[i].id].delivered_at

=============================================================================
